---------------------------- MODULE Spec2Model ----------------------------
(***************************************************************************)
(* Power BI AI Guru: the tabular profiling pipeline (DataProfiling) and    *)
(* the simulated cleaning engine (DataCleaning), as a state machine.       *)
(*                                                                         *)
(* Text is a sequence of one-character strings, so that trim() and the     *)
(* isNumeric regular expression are computed, not assumed.  A raw cell is  *)
(* a tagged record: parseFile returns (string|number|boolean|null)[][].    *)
(***************************************************************************)
EXTENDS Integers, Sequences, FiniteSets, TLC

VARIABLES
    files,            \* App: File[], each with its name and what parseFile reads in it
    activePage,       \* App: the page shown
    profiles,         \* App: Record<file name, FullProfileResult>
    status,           \* DataProfiling: Record<file name, status>
    errors,           \* DataProfiling: Record<file name, message>
    runs,             \* the runProfiling invocations suspended at an await
    activeFile,       \* DataCleaning: the tab shown (Null when there is none)
    loadingStates,    \* DataCleaning: Record<file name, loading state>
    suggestions,      \* DataCleaning: Record<file name, Record<column, list>>
    fetches,          \* the fetchSuggestionsForFile invocations suspended
    selectedActions,  \* DataCleaning: Record<key, AppliedAction>
    applies,          \* how many times Apply Changes ran (bounds the model)
    relationships,    \* App: Relationship[]
    modeling,         \* DataModeling: suggestions, isLoading, error
    requests,         \* the fetchSuggestions invocations of DataModeling suspended
    last              \* what the latest handler read (history)

vars == <<files, activePage, profiles, status, errors, runs, activeFile, loadingStates,
          suggestions, fetches, selectedActions, applies, relationships, modeling,
          requests, last>>

-----------------------------------------------------------------------------
(* Bounds of the model *)

MaxRows == 2          \* data rows of an enumerated file of CleaningSpec
MaxApplies == 2       \* Apply Changes runs in one behaviour
MaxColRows == 3       \* data rows of an enumerated one-column file of ProfilerSpec
MaxRagged == 2        \* data rows of an enumerated ragged file of ProfilerSpec
MaxFiles == 2         \* files of a session
MaxRequests == 2       \* generateRelationshipSuggestions calls suspended at a time
MaxRepeatedApplies == 4  \* Apply Changes runs in one behaviour of RepeatedSpec

-----------------------------------------------------------------------------
(* JavaScript values *)

Null == "null"

\* Number values a count can take besides the naturals: NaN, and the null that
\* JSON.stringify writes for NaN.  Both are kept apart from every count.
NaN == 0 - 1
JsNull == 0 - 2

IsCount(x) == x \in Nat

Max(a, b) == IF a >= b THEN a ELSE b


Range(s) == {s[i] : i \in DOMAIN s}

-----------------------------------------------------------------------------
(* Text: String.prototype.trim and the isNumeric regular expression *)

Digits == {"0", "1", "2", "3", "4", "5", "6", "7", "8", "9"}
WhiteSpace == {" "}

RECURSIVE TrimLeft(_)
TrimLeft(s) ==
    IF s # <<>> /\ Head(s) \in WhiteSpace THEN TrimLeft(Tail(s)) ELSE s

RECURSIVE TrimRight(_)
TrimRight(s) ==
    IF s # <<>> /\ s[Len(s)] \in WhiteSpace
    THEN TrimRight(SubSeq(s, 1, Len(s) - 1))
    ELSE s

Trim(s) == TrimRight(TrimLeft(s))

AllDigits(s) == \A i \in DOMAIN s : s[i] \in Digits

\* /^\d*\.?\d+$/ : digits only (at least one), or digits, a dot, digits (>= 1).
MatchesUnsigned(s) ==
    \/ Len(s) > 0 /\ AllDigits(s)
    \/ \E k \in DOMAIN s :
          /\ s[k] = "."
          /\ AllDigits(SubSeq(s, 1, k - 1))
          /\ k < Len(s)
          /\ AllDigits(SubSeq(s, k + 1, Len(s)))

\* isNumeric: /^-?\d*\.?\d+$/.test(str.trim()), false for a blank string.
isNumeric(str) ==
    LET t == Trim(str)
    IN  IF t = <<>> THEN FALSE
        ELSE \/ MatchesUnsigned(t)
             \/ Head(t) = "-" /\ MatchesUnsigned(Tail(t))

\* val.trim() === '' ; the variant compares without trimming
isBlankUntrimmed(val) == val = <<>>

isBlank(val) == Trim(val) = <<>>

-----------------------------------------------------------------------------
(* Raw cells and String(cell) *)

Str(s) == [t |-> "str", s |-> s]
Num(n) == [t |-> "num", n |-> n]
Bool(b) == [t |-> "bool", b |-> b]
NullCell == [t |-> "null"]

DigitChar(d) == <<"0", "1", "2", "3", "4", "5", "6", "7", "8", "9">>[d + 1]

RECURSIVE NatToString(_)
NatToString(n) ==
    IF n < 10 THEN <<DigitChar(n)>>
    ELSE NatToString(n \div 10) \o <<DigitChar(n % 10)>>

\* String(cell) of an integer, a boolean or a string.
ToStringOf(cell) ==
    CASE cell.t = "str" -> cell.s
      [] cell.t = "num" ->
            IF cell.n < 0 THEN <<"-">> \o NatToString(0 - cell.n)
            ELSE NatToString(cell.n)
      [] cell.t = "bool" ->
            IF cell.b THEN <<"t", "r", "u", "e">> ELSE <<"f", "a", "l", "s", "e">>

\* rawRows.map(row => header.map((_, colIndex) => ...)): a cell that is null or
\* beyond the row's end becomes '', a cell beyond the header is dropped.
NormalizeCell(row, colIndex) ==
    IF colIndex > Len(row) \/ row[colIndex].t = "null"
    THEN <<>>
    ELSE ToStringOf(row[colIndex])

NormalizeRows(header, rawRows) ==
    [r \in DOMAIN rawRows |->
        [c \in DOMAIN header |-> NormalizeCell(rawRows[r], c)]]

-----------------------------------------------------------------------------
(* runProfiling, step 3: the basic profile of a parsed file *)

\* dataType of a column from its non-blank values
DataTypeOf(nonNullValues) ==
    LET numericValues == SelectSeq(nonNullValues, isNumeric)
        stringValues  == SelectSeq(nonNullValues, LAMBDA val : ~isNumeric(val))
    IN  IF Len(nonNullValues) > 0
        THEN IF Len(numericValues) > 0 /\ Len(stringValues) > 0 THEN "mixed"
             ELSE IF Len(numericValues) > 0 THEN "number"
             ELSE "string"
        ELSE "unknown"

\* header.map((colName, colIndex) => ...): one ColumnProfile from the column's
\* normalized values.  nonNumericCount is a field of mixed columns only; the
\* variant sets it on every column.
ColumnProfileOfAlwaysCounting(colName, columnValues) ==
    LET nonNullValues == SelectSeq(columnValues, LAMBDA val : ~isBlank(val))
        stringValues  == SelectSeq(nonNullValues, LAMBDA val : ~isNumeric(val))
        dataType      == DataTypeOf(nonNullValues)
    IN  [name |-> colName, dataType |-> dataType,
         missingValues |-> Len(SelectSeq(columnValues, isBlank)),
         uniqueValues |-> Cardinality(Range(nonNullValues)),
         nonNumericCount |-> IF dataType = "mixed" THEN Len(stringValues) ELSE 0]

ColumnProfileOf(colName, columnValues) ==
    LET missingValues == Len(SelectSeq(columnValues, isBlank))
        nonNullValues == SelectSeq(columnValues, LAMBDA val : ~isBlank(val))
        uniqueValues  == Cardinality(Range(nonNullValues))
        stringValues  == SelectSeq(nonNullValues, LAMBDA val : ~isNumeric(val))
        dataType      == DataTypeOf(nonNullValues)
        profile == [name |-> colName, dataType |-> dataType,
                    missingValues |-> missingValues, uniqueValues |-> uniqueValues]
    IN  IF dataType = "mixed"
        THEN [name |-> colName, dataType |-> dataType,
              missingValues |-> missingValues, uniqueValues |-> uniqueValues,
              nonNumericCount |-> Len(stringValues)]
        ELSE profile

\* rows.map(row => row[colIndex])
ColumnValues(rows, colIndex) == [r \in DOMAIN rows |-> rows[r][colIndex]]

\* basicProfile of a parse result {header, rows: rawRows}
BasicProfile(header, rawRows) ==
    LET rows == NormalizeRows(header, rawRows)
    IN  [rowCount |-> Len(rows),
         columnCount |-> Len(header),
         columns |-> [c \in DOMAIN header |->
                         ColumnProfileOf(header[c], ColumnValues(rows, c))]]

HasNonNumericCount(col) == "nonNumericCount" \in DOMAIN col

-----------------------------------------------------------------------------
(* IEEE-754 double arithmetic of the removal estimate                       *)
(*   removalRatio = maxRowsToRemove / originalRowCount                      *)
(*   estimatedRemovals = Math.round(col.missingValues * removalRatio)       *)
(* A double is [limbs, exp]: five digits of base 2^13, the first of weight  *)
(* 2^52, times 2^(exp - 52).  A quotient has 53 significant bits (its first *)
(* digit is 1); it is rounded to nearest-even, the product is rounded       *)
(* again, and Math.round rounds half up.  Operands are naturals below 2^13. *)

LimbBase == 8192
LimbBits == 13

Pow2(n) == 2 ^ n

Front(s) == SubSeq(s, 1, Len(s) - 1)

\* the number of bits of n >= 1
BitLen(n) == CHOOSE k \in 1 .. 31 : Pow2(k - 1) <= n /\ (k = 31 \/ n < Pow2(k))

\* digits brought below the base, the carries added to the digit before
CarryLimbs(l) ==
    LET c5 == l[5] \div LimbBase
        d4 == l[4] + c5
        c4 == d4 \div LimbBase
        d3 == l[3] + c4
        c3 == d3 \div LimbBase
        d2 == l[2] + c3
        c2 == d2 \div LimbBase
    IN  <<l[1] + c2, d2 % LimbBase, d3 % LimbBase, d4 % LimbBase, l[5] % LimbBase>>

\* the least k >= 0 with a < b * 2^(k+1), for a >= b >= 1
ExpUp(a, b) == CHOOSE k \in 0 .. LimbBits : a < b * Pow2(k + 1) /\ (k = 0 \/ a >= b * Pow2(k))

\* the least k >= 1 with a * 2^k >= b, for 1 <= a < b
ExpDown(a, b) == CHOOSE k \in 1 .. LimbBits : a * Pow2(k) >= b /\ a * Pow2(k - 1) < b

\* a / b as a double, for naturals a >= 1 and b >= 1: long division
DoubleQuotient(a, b) ==
    LET big  == a >= b
        k    == IF big THEN ExpUp(a, b) ELSE ExpDown(a, b)
        num  == IF big THEN a ELSE a * Pow2(k)
        den  == IF big THEN b * Pow2(k) ELSE b
        r0   == num - den
        d1   == (r0 * LimbBase) \div den
        r1   == (r0 * LimbBase) % den
        d2   == (r1 * LimbBase) \div den
        r2   == (r1 * LimbBase) % den
        d3   == (r2 * LimbBase) \div den
        r3   == (r2 * LimbBase) % den
        d4   == (r3 * LimbBase) \div den
        r4   == (r3 * LimbBase) % den
        more == 2 * r4 > den \/ (2 * r4 = den /\ d4 % 2 = 1)
        sum  == CarryLimbs(<<1, d1, d2, d3, d4 + (IF more THEN 1 ELSE 0)>>)
        e    == IF big THEN k ELSE 0 - k
    IN  IF sum[1] = 2
        THEN [limbs |-> <<1, 0, 0, 0, 0>>, exp |-> e + 1]
        ELSE [limbs |-> sum, exp |-> e]

\* m * d as a double, for a natural m >= 1: the exact product, rounded to its
\* 53 leading bits
DoubleTimes(m, d) ==
    LET p    == CarryLimbs([i \in 1 .. 5 |-> m * d.limbs[i]])
        sh   == BitLen(p[1]) - 1
        drop == p[5] % Pow2(sh)
        odd  == IF sh < LimbBits THEN (p[5] \div Pow2(sh)) % 2 = 1 ELSE p[4] % 2 = 1
        more == sh > 0 /\ (2 * drop > Pow2(sh) \/ (2 * drop = Pow2(sh) /\ odd))
        low  == p[5] - drop + (IF more THEN Pow2(sh) ELSE 0)
    IN  [limbs |-> CarryLimbs(<<p[1], p[2], p[3], p[4], low>>), exp |-> d.exp]

\* Math.round of a positive double: the integer part, plus one when the
\* fraction is a half or more.  f is the number of fraction bits, 39 or more.
MathRound(d) ==
    LET f == 52 - d.exp
        l == d.limbs
        whole == IF f >= 52 THEN l[1] \div Pow2(f - 52)
                 ELSE l[1] * Pow2(52 - f) + l[2] \div Pow2(f - 39)
        half  == IF f > 52 THEN (l[1] \div Pow2(f - 53)) % 2
                 ELSE IF f > 39 THEN (l[2] \div Pow2(f - 40)) % 2
                 ELSE (l[3] \div Pow2(LimbBits - 1)) % 2
    IN  whole + half

\* Math.round(m * (r / rc)) for naturals m, r >= 1, rc >= 1
EstimatedRemovals(m, r, rc) ==
    IF m = 0 THEN 0 ELSE MathRound(DoubleTimes(m, DoubleQuotient(r, rc)))

-----------------------------------------------------------------------------
(* Records keyed by strings (JavaScript objects) *)

EmptyMap == [k \in {} |-> Null]

Put(m, k, v) == [x \in DOMAIN m \cup {k} |-> IF x = k THEN v ELSE m[x]]

-----------------------------------------------------------------------------
(* Cleaning suggestions and the issue detector (fetchSuggestionsForFile) *)

FillActions == {"FILL_MEAN", "FILL_MEDIAN", "FILL_MODE", "FILL_CUSTOM"}

Suggestion(action, targetType) == [action |-> action, targetType |-> targetType]

\* What the collaborator may answer for an issue: every action kind, and
\* CHANGE_TYPE with each target type and with none.
AllSuggestions ==
    <<Suggestion("REMOVE_ROWS", Null),
      Suggestion("FILL_MEAN", Null),
      Suggestion("FILL_MEDIAN", Null),
      Suggestion("FILL_MODE", Null),
      Suggestion("FILL_CUSTOM", Null),
      Suggestion("CHANGE_TYPE", "number"),
      Suggestion("CHANGE_TYPE", "string"),
      Suggestion("CHANGE_TYPE", Null),
      Suggestion("TRIM_WHITESPACE", Null)>>

\* col.missingValues > 0: false for NaN and for null; the variant has >= 0
HasMissingIncludingZero(col) == IsCount(col.missingValues)

HasMissing(col) == IsCount(col.missingValues) /\ col.missingValues > 0

\* col.dataType === 'mixed' && col.nonNumericCount && col.nonNumericCount > 0
IsMixedIssue(col) ==
    col.dataType = "mixed" /\ HasNonNumericCount(col) /\ col.nonNumericCount > 0

\* the descriptors profile.columns.forEach pushes for one column
ColumnIssues(fileName, profile, col) ==
    (IF HasMissing(col)
     THEN <<[fileName |-> fileName, columnName |-> col.name,
             issueType |-> "missing_values",
             details |-> [missingCount |-> col.missingValues,
                          totalRows |-> profile.rowCount]]>>
     ELSE <<>>)
    \o
    (IF IsMixedIssue(col)
     THEN <<[fileName |-> fileName, columnName |-> col.name,
             issueType |-> "mixed_type",
             details |-> [nonNumericCount |-> col.nonNumericCount,
                          totalRows |-> profile.rowCount]]>>
     ELSE <<>>)

RECURSIVE IssuesFrom(_, _, _)
IssuesFrom(fileName, profile, c) ==
    IF c > Len(profile.columns) THEN <<>>
    ELSE ColumnIssues(fileName, profile, profile.columns[c])
         \o IssuesFrom(fileName, profile, c + 1)

\* issuesToFetch of a file profile, in column order
IssuesToFetch(fileName, profile) == IssuesFrom(fileName, profile, 1)

\* A field an object does not have
Undefined == "undefined"

\* What JSON.parse(jsonText) gives: an object with or without its suggestions
\* list; NoJson is a text JSON.parse throws on
NoJson == [json |-> FALSE]
NoList == [json |-> TRUE, fields |-> {}]
Response(list) == [json |-> TRUE, fields |-> {"suggestions"}, suggestions |-> list]

Returned(value) == [ok |-> TRUE, value |-> value]
Failed(message) == [ok |-> FALSE, message |-> message]

\* generateCleaningSuggestions(issue), from the parsed response on: the list is
\* returned as it came when the object has one
generateCleaningSuggestions(response) ==
    IF ~response.json
    THEN Failed("Failed to generate cleaning suggestions. Reason: Unexpected token")
    ELSE IF "suggestions" \in response.fields
    THEN Returned(response.suggestions)
    ELSE Failed("Failed to generate cleaning suggestions. Reason: Invalid JSON structure received from AI for cleaning suggestions.")

\* generateRelationshipSuggestions(profiles), from the parsed response on;
\* fewFiles is fileCount < 2, for which no call is made
generateRelationshipSuggestions(fewFiles, response) ==
    IF fewFiles THEN Returned(<<>>)
    ELSE IF ~response.json
    THEN Failed("Failed to generate suggestions. Reason: Unexpected token")
    ELSE IF "suggestions" \in response.fields
    THEN Returned(response.suggestions)
    ELSE Failed("Failed to generate suggestions. Reason: Invalid JSON structure received from AI for relationship suggestions.")

\* fileSuggestions: every issue's answer appended under its column name
RECURSIVE FileSuggestions(_, _)
FileSuggestions(issues, answer) ==
    IF issues = <<>> THEN EmptyMap
    ELSE LET rest == FileSuggestions(Front(issues), answer)
             col  == issues[Len(issues)].columnName
         IN  Put(rest, col,
                 (IF col \in DOMAIN rest THEN rest[col] ELSE <<>>) \o answer)

-----------------------------------------------------------------------------
(* The cleaning simulator (handleApplyChanges) *)

\* JSON.parse(JSON.stringify(profiles)): NaN is written as null
JsonCopyColumn(col) ==
    IF col.missingValues = NaN THEN [col EXCEPT !.missingValues = JsNull] ELSE col

JsonCopy(profs) ==
    [f \in DOMAIN profs |->
        [profs[f] EXCEPT !.columns = [c \in DOMAIN @ |-> JsonCopyColumn(@[c])]]]

\* ToNumber of a count read back from the copy: null is 0
ToNumber(x) == IF x = JsNull THEN 0 ELSE x

\* fileProfile.columns.find(c => c.name === action.column) ; the variant
\* falls back on the first column
FindColumnOrFirst(columns, name) ==
    IF \E c \in DOMAIN columns : columns[c].name = name
    THEN CHOOSE c \in DOMAIN columns :
            /\ columns[c].name = name
            /\ \A d \in DOMAIN columns : columns[d].name = name => c <= d
    ELSE 1

\* fileProfile.columns.find(c => c.name === action.column), 0 for undefined
FindColumn(columns, name) ==
    IF \E c \in DOMAIN columns : columns[c].name = name
    THEN CHOOSE c \in DOMAIN columns :
            /\ columns[c].name = name
            /\ \A d \in DOMAIN columns : columns[d].name = name => c <= d
    ELSE 0

\* if (originalMissingCount > maxRowsToRemove) maxRowsToRemove = originalMissingCount
\* ; the variant adds the counts up
SumRowsToRemove(originalMissingCount, maxRowsToRemove) ==
    maxRowsToRemove + ToNumber(originalMissingCount)

NextMaxRowsToRemove(originalMissingCount, maxRowsToRemove) ==
    IF ToNumber(originalMissingCount) > maxRowsToRemove
    THEN originalMissingCount
    ELSE maxRowsToRemove

\* case REMOVE_ROWS
RemoveRowsColumn(column) == [column EXCEPT !.missingValues = 0]

\* case FILL_MEAN, FILL_MEDIAN, FILL_MODE, FILL_CUSTOM ; the variant leaves
\* uniqueValues
FillColumnKeepingUnique(column) == [column EXCEPT !.missingValues = 0]

FillColumn(column) ==
    [column EXCEPT !.missingValues = 0, !.uniqueValues = @ + 1]

\* case CHANGE_TYPE ; the variant does not add nonNumericCount to missingValues
ChangeTypeKeepingMissing(column, targetType) ==
    IF targetType = Null THEN column
    ELSE IF targetType = "number" /\ HasNonNumericCount(column)
            /\ column.nonNumericCount # 0
    THEN [column EXCEPT !.dataType = targetType, !.nonNumericCount = 0]
    ELSE [column EXCEPT !.dataType = targetType]

ChangeTypeColumn(column, targetType) ==
    IF targetType = Null THEN column
    ELSE IF targetType = "number" /\ HasNonNumericCount(column)
            /\ column.nonNumericCount # 0
    THEN [column EXCEPT !.dataType = targetType,
                        !.missingValues = ToNumber(@) + column.nonNumericCount,
                        !.nonNumericCount = 0]
    ELSE [column EXCEPT !.dataType = targetType]

\* one iteration of actions.forEach: st is [columns, maxRowsToRemove]
ApplyAction(st, action) ==
    LET c == FindColumn(st.columns, action.column)
        column == st.columns[c]
        kind == action.suggestion.action
    IN  IF c = 0 THEN st
        ELSE IF kind = "REMOVE_ROWS"
        THEN [columns |-> [st.columns EXCEPT ![c] = RemoveRowsColumn(column)],
              maxRowsToRemove |->
                  NextMaxRowsToRemove(column.missingValues, st.maxRowsToRemove)]
        ELSE IF kind \in FillActions
        THEN [st EXCEPT !.columns[c] = FillColumn(column)]
        ELSE IF kind = "CHANGE_TYPE"
        THEN [st EXCEPT !.columns[c] =
                 ChangeTypeColumn(column, action.suggestion.targetType)]
        ELSE st

\* actions.forEach(action => ...) ; the variant stops after the first
ApplyActionsFirstOnly(st, actions) ==
    IF actions = <<>> THEN st ELSE ApplyAction(st, Head(actions))

RECURSIVE ApplyActions(_, _)
ApplyActions(st, actions) ==
    IF actions = <<>> THEN st
    ELSE ApplyActions(ApplyAction(st, Head(actions)), Tail(actions))

\* actions.some(a => a.column === col.name && a.suggestion.action === REMOVE_ROWS)
RemovedByName(actions, col) ==
    \E i \in DOMAIN actions :
        actions[i].column = col.name /\ actions[i].suggestion.action = "REMOVE_ROWS"

\* col.missingValues after the removal estimate is subtracted.  A zero
\* originalRowCount makes the ratio Infinity: 0 * Infinity is NaN, which stays;
\* a positive count times Infinity is Infinity, and the difference is floored.
PropagatedMissing(missingValues, maxRowsToRemove, originalRowCount) ==
    IF originalRowCount = 0
    THEN IF ToNumber(missingValues) = 0 THEN NaN ELSE 0
    ELSE Max(0, ToNumber(missingValues)
                - EstimatedRemovals(ToNumber(missingValues), maxRowsToRemove,
                                    originalRowCount))

\* the body of for (const fileName in actionsByFile), for a file with a profile;
\* the variant subtracts from columnCount what it subtracts from rowCount
ApplyToFileShrinkingColumnCount(fileProfile, actions) ==
    LET st == ApplyActions([columns |-> fileProfile.columns, maxRowsToRemove |-> 0],
                           actions)
    IN  IF st.maxRowsToRemove > 0
        THEN [fileProfile EXCEPT
                 !.rowCount = Max(0, @ - st.maxRowsToRemove),
                 !.columnCount = Max(0, @ - st.maxRowsToRemove),
                 !.columns =
                     [c \in DOMAIN st.columns |->
                         IF RemovedByName(actions, st.columns[c])
                         THEN st.columns[c]
                         ELSE [st.columns[c] EXCEPT !.missingValues =
                                  PropagatedMissing(@, st.maxRowsToRemove,
                                                    fileProfile.rowCount)]]]
        ELSE [fileProfile EXCEPT !.columns = st.columns]

ApplyToFile(fileProfile, actions) ==
    LET st == ApplyActions([columns |-> fileProfile.columns, maxRowsToRemove |-> 0],
                           actions)
    IN  IF st.maxRowsToRemove > 0
        THEN [fileProfile EXCEPT
                 !.rowCount = Max(0, @ - st.maxRowsToRemove),
                 !.columns =
                     [c \in DOMAIN st.columns |->
                         IF RemovedByName(actions, st.columns[c])
                         THEN st.columns[c]
                         ELSE [st.columns[c] EXCEPT !.missingValues =
                                  PropagatedMissing(@, st.maxRowsToRemove,
                                                    fileProfile.rowCount)]]]
        ELSE [fileProfile EXCEPT !.columns = st.columns]

\* handleApplyChanges ; the variant installs the columns' own changes and
\* leaves out the rows removed
ApplyChangesColumnsOnly(profs, actions) ==
    LET newProfiles == JsonCopy(profs)
    IN  [f \in DOMAIN newProfiles |->
            LET mine == SelectSeq(actions, LAMBDA a : a.file = f)
            IN  [newProfiles[f] EXCEPT !.columns =
                    ApplyActions([columns |-> @, maxRowsToRemove |-> 0], mine).columns]]

\* newProfiles of handleApplyChanges; actions is Object.values(selectedActions)
ApplyChanges(profs, actions) ==
    LET newProfiles == JsonCopy(profs)
    IN  [f \in DOMAIN newProfiles |->
            LET mine == SelectSeq(actions, LAMBDA a : a.file = f)
            IN  IF mine = <<>> THEN newProfiles[f]
                ELSE ApplyToFile(newProfiles[f], mine)]

\* the cases of the switch that assign nothing: TRIM_WHITESPACE, and
\* CHANGE_TYPE when parameters?.targetType is not there
IsNeutral(suggestion) ==
    \/ suggestion.action = "TRIM_WHITESPACE"
    \/ suggestion.action = "CHANGE_TYPE" /\ suggestion.targetType = Null

\* maxRowsToRemove after the actions of one file were applied
RowsToRemove(profs, actions, f) ==
    ApplyActions([columns |-> JsonCopy(profs)[f].columns, maxRowsToRemove |-> 0],
                 SelectSeq(actions, LAMBDA a : a.file = f)).maxRowsToRemove

-----------------------------------------------------------------------------
(* The files of a session: what parseFile returns for each *)

Pages == {"Data Upload", "Data Profiling", "Data Cleaning", "Data Modeling",
          "KPIs & DAX", "Dashboard Design", "Publish & Share"}

File(name, header, rows) == [name |-> name, header |-> header, rows |-> rows]

\* a file holding JSON text: data is what JSON.parse makes of it
JsonFile(name, data) == [name |-> name, data |-> data]

\* a file of any other content
OtherFile(name) == [name |-> name]

\* text that is not JSON (an empty file): JSON.parse throws
JsonInvalid == [t |-> "invalid"]
JsonArray(items) == [t |-> "arr", items |-> items]
JsonObject(keys, vals) == [t |-> "obj", keys |-> keys, vals |-> vals]

\* file.name.split('.').pop(), for the names of the model's files
LastPart(name) ==
    CASE name = "sales.csv" -> "csv"
      [] name = "costs.CSV" -> "CSV"
      [] name = "data.json" -> "json"
      [] name = "report.pdf" -> "pdf"
      [] name = "sales.csv-old.csv" -> "csv"
      [] OTHER -> name

\* toLowerCase(), for those parts
ToLowerCase(part) ==
    CASE part = "CSV" -> "csv"
      [] OTHER -> part

Extension(name) == ToLowerCase(LastPart(name))

Parsed(header, rows) == [ok |-> TRUE, header |-> header, rows |-> rows]
Thrown(message) == [ok |-> FALSE, message |-> message]

\* item[key] in the json case: undefined and null become '', a value of
\* a primitive item is undefined
JsonValueAt(item, key) ==
    IF item.t = "obj" /\ \E k \in DOMAIN item.keys : item.keys[k] = key
    THEN LET k == CHOOSE k \in DOMAIN item.keys : item.keys[k] = key
         IN  IF item.vals[k] = NullCell THEN Str(<<>>) ELSE item.vals[k]
    ELSE Str(<<>>)

\* parseFile(file): the header and the rows, or the Error thrown
ParseFile(file) ==
    LET extension == Extension(file.name)
    IN  IF extension \in {"csv", "xlsx", "xls"}
        THEN Parsed(file.header, file.rows)
        ELSE IF extension = "json"
        THEN IF file.data = JsonInvalid
             THEN Thrown("Unexpected end of JSON input")
             ELSE IF file.data.t # "arr" \/ Len(file.data.items) = 0
             THEN Thrown("JSON file must be a non-empty array of objects.")
             ELSE IF file.data.items[1].t # "obj"
             THEN Thrown("JSON file must be an array of objects.")
             ELSE IF \E i \in DOMAIN file.data.items : file.data.items[i] = NullCell
             THEN Thrown("Cannot read properties of null")
             ELSE LET header == file.data.items[1].keys
                  IN  Parsed(header,
                             [i \in DOMAIN file.data.items |->
                                 [c \in DOMAIN header |->
                                     JsonValueAt(file.data.items[i], header[c])]])
        ELSE Thrown("Unsupported file type: ." \o extension)

\* every grid of at most maxRows rows, each row a cell per header entry
RectGrids(header, cells, maxRows) ==
    UNION {[1 .. n -> [DOMAIN header -> cells]] : n \in 0 .. maxRows}

\* every grid of at most maxRows rows, each row of any length up to one more
\* than the header's
RaggedGrids(header, cells, maxRows) ==
    LET rowSet == UNION {[1 .. w -> cells] : w \in 0 .. Len(header) + 1}
    IN  UNION {[1 .. n -> rowSet] : n \in 0 .. maxRows}

Blank == Str(<<>>)
One == Str(<<"1">>)
Word == Str(<<"a">>)

\* cells of the profiler's files: '', ' ', '10', '20.5', '-3', 'abc', '1.',
\* null, the number 0 and true
ProfilerCells ==
    {Blank, Str(<<" ">>), Str(<<"1", "0">>), Str(<<"2", "0", ".", "5">>),
     Str(<<"-", "3">>), Str(<<"a", "b", "c">>), Str(<<"1", ".">>),
     NullCell, Num(0), Bool(TRUE)}

RaggedCells == {NullCell, One}

\* a CSV file without a line: parseFile returns { header: [], rows: [] }
EmptyFile == File("sales.csv", <<>>, <<>>)

ProfilerFiles ==
    {EmptyFile}
    \cup
    {File("sales.csv", <<"A">>, rows) :
        rows \in RectGrids(<<"A">>, ProfilerCells, MaxColRows)}
    \cup
    {File("sales.csv", <<"A", "B">>, rows) :
        rows \in RaggedGrids(<<"A", "B">>, RaggedCells, MaxRagged)}

CleaningCells == {Blank, One, Word}
CleaningHeaders == {<<"A">>, <<"A", "B">>, <<"A", "A">>}

\* 100 rows, A blank in 10 of them and B in 20
ExampleFile ==
    File("sales.csv", <<"A", "B">>,
         [i \in 1 .. 100 |-> <<IF i <= 10 THEN Blank ELSE One,
                               IF i > 80 THEN Blank ELSE One>>])

\* a mixed column: 2 blank cells, 5 words and a number
TypeChangeFile ==
    File("sales.csv", <<"A">>,
         [i \in 1 .. 8 |-> <<IF i <= 2 THEN Blank ELSE IF i <= 7 THEN Word ELSE One>>])

\* 22 rows, A blank in 15 of them and B in 11: 11 * 15 / 22 is 7.5
HalfwayFile ==
    File("sales.csv", <<"A", "B">>,
         [i \in 1 .. 22 |-> <<IF i <= 15 THEN Blank ELSE One,
                              IF i > 11 THEN Blank ELSE One>>])

ScenarioFiles == {ExampleFile, TypeChangeFile, HalfwayFile}

CleaningFiles ==
    ScenarioFiles \cup
    UNION {{File("sales.csv", h, rows) : rows \in RectGrids(h, CleaningCells, MaxRows)} :
              h \in CleaningHeaders}

\* the files of a session with several uploads: two files of the same name
\* with different columns
SalesFile == File("sales.csv", <<"A", "B">>, <<<<One, Blank>>, <<Word, One>>>>)
SalesAgainFile == File("sales.csv", <<"A">>, <<<<Blank>>, <<One>>>>)

SessionFiles == {SalesFile, SalesAgainFile}

\* the files of a batch: files parseFile reads and files it rejects
CostsFile == File("costs.CSV", <<"A">>, <<<<Blank>>, <<One>>>>)
ReportFile == OtherFile("report.pdf")
EmptyJsonFile == JsonFile("data.json", JsonInvalid)
NoItemsFile == JsonFile("data.json", JsonArray(<<>>))
NoArrayFile == JsonFile("data.json", JsonObject(<<"A">>, <<One>>))
NoObjectsFile == JsonFile("data.json", JsonArray(<<Num(0)>>))
NullItemFile ==
    JsonFile("data.json", JsonArray(<<JsonObject(<<"A">>, <<One>>), NullCell>>))
ObjectsFile ==
    JsonFile("data.json",
             JsonArray(<<JsonObject(<<"A", "B">>, <<NullCell, Num(0)>>),
                         JsonObject(<<"B">>, <<Word>>), One>>))

BatchFiles ==
    {SalesFile, CostsFile, EmptyFile, ReportFile, OtherFile("README"),
     EmptyJsonFile, NoItemsFile, NoArrayFile, NoObjectsFile, NullItemFile,
     ObjectsFile}

\* the lists of at least one and at most n files of a set
FileLists(fileSet, n) == UNION {[1 .. k -> fileSet] : k \in 1 .. n}

-----------------------------------------------------------------------------
(* The state machine *)

NoApply == [applied |-> FALSE]

\* DataModeling when it is mounted: useState([]), useState(true),
\* useState(null); seen is the profiles its effect last ran for
NewModeling ==
    [suggestions |-> <<>>, isLoading |-> TRUE, error |-> Null, seen |-> [any |-> FALSE]]

\* the suspended calls of a page that is left: their setters no longer reach a
\* mounted component
Abandoned(calls) == [i \in DOMAIN calls |-> [calls[i] EXCEPT !.stale = TRUE]]

InitWith(fileList) ==
    /\ files = fileList
    /\ activePage = "Data Upload"
    /\ profiles = EmptyMap
    /\ status = EmptyMap
    /\ errors = EmptyMap
    /\ runs = {}
    /\ activeFile = Null
    /\ loadingStates = EmptyMap
    /\ suggestions = EmptyMap
    /\ fetches = {}
    /\ selectedActions = EmptyMap
    /\ applies = 0
    /\ relationships = <<>>
    /\ modeling = NewModeling
    /\ requests = <<>>
    /\ last = NoApply

\* App's useState values: no file yet
Init == InitWith(<<>>)

\* setActivePage(page): the page left is unmounted and its state is gone; its
\* suspended runProfiling calls still resolve, and their setStatus no longer
\* reaches a mounted component.  DataCleaning starts on the first file.
Show(page) ==
    /\ activePage' = page
    /\ status' = EmptyMap
    /\ errors' = EmptyMap
    /\ runs' = {[r EXCEPT !.stale = TRUE] : r \in runs}
    /\ activeFile' = IF page = "Data Cleaning" /\ files # <<>> THEN files[1].name ELSE Null
    /\ loadingStates' = EmptyMap
    /\ suggestions' = EmptyMap
    /\ fetches' = {}
    /\ selectedActions' = EmptyMap
    /\ modeling' = NewModeling
    /\ requests' = Abandoned(requests)
    /\ last' = NoApply
    /\ UNCHANGED <<files, profiles, applies, relationships>>

\* Sidebar: a click on the entry of another page
Navigate(page) ==
    /\ page \in Pages
    /\ page # activePage
    /\ Show(page)

\* DataUpload: handleDrop and handleChange, setFiles(prevFiles => [...prevFiles,
\* ...newFiles])
HandleDrop(newFiles) ==
    /\ activePage = "Data Upload"
    /\ Len(files) + Len(newFiles) <= MaxFiles
    /\ files' = files \o newFiles
    /\ last' = NoApply
    /\ UNCHANGED <<activePage, profiles, status, errors, runs, activeFile,
                   loadingStates, suggestions, fetches, selectedActions, applies,
                   relationships, modeling, requests>>

\* prevFiles.filter((_, i) => i !== index)
RemoveAt(list, index) ==
    [j \in 1 .. Len(list) - 1 |-> IF j < index THEN list[j] ELSE list[j + 1]]

\* DataUpload: removeFile(index), the button of a file of the list
RemoveFile(index) ==
    /\ activePage = "Data Upload"
    /\ index \in DOMAIN files
    /\ files' = RemoveAt(files, index)
    /\ last' = NoApply
    /\ UNCHANGED <<activePage, profiles, status, errors, runs, activeFile,
                   loadingStates, suggestions, fetches, selectedActions, applies,
                   relationships, modeling, requests>>

\* DataUpload: the button Proceed to Profiling
ProceedToProfiling ==
    /\ activePage = "Data Upload"
    /\ files # <<>>
    /\ Show("Data Profiling")

StatusOf(fileName) == IF fileName \in DOMAIN status THEN status[fileName] ELSE "pending"

allFilesProcessed ==
    /\ files # <<>>
    /\ \A i \in DOMAIN files : StatusOf(files[i].name) \in {"complete", "error"}

\* DataProfiling: the button Proceed to Data Cleaning
ProceedToCleaning ==
    /\ activePage = "Data Profiling"
    /\ allFilesProcessed
    /\ Show("Data Cleaning")

\* DataProfiling's effect: runProfiling(file) for every file without a status,
\* each up to its first await (status 'profiling', parseFile pending)
ProfilingEffect ==
    LET fresh == {i \in DOMAIN files : files[i].name \notin DOMAIN status}
    IN  /\ activePage = "Data Profiling"
        /\ fresh # {}
        /\ status' = [n \in DOMAIN status \cup {files[i].name : i \in fresh} |->
                         IF n \in DOMAIN status THEN status[n] ELSE "profiling"]
        /\ runs' = runs \cup {[id |-> i, file |-> files[i], pc |-> "parse",
                               stale |-> FALSE, basicProfile |-> Null] : i \in fresh}
        /\ last' = NoApply
        /\ UNCHANGED <<files, activePage, profiles, errors, activeFile, loadingStates,
                       suggestions, fetches, selectedActions, applies,
                       relationships, modeling, requests>>

\* setStatus of a run: lost when the component that started it is unmounted
SetStatus(run, value) ==
    status' = IF run.stale THEN status ELSE Put(status, run.file.name, value)

\* setErrors of a run, in its catch ; the variant stores the message of an
\* exception that is no Error
SetErrorsUnknown(run, message) ==
    errors' = IF run.stale THEN errors
              ELSE Put(errors, run.file.name, "An unknown error occurred during analysis.")

\* setErrors of a run, in its catch
SetErrors(run, message) ==
    errors' = IF run.stale THEN errors ELSE Put(errors, run.file.name, message)

\* parseFile settles: steps 2 to 4 of runProfiling, up to the insights call;
\* an Error of parseFile and an empty parse result end in the catch, which
\* sets status 'error' and the message
ParseDone(run) ==
    LET parsed == ParseFile(run.file)
    IN  /\ run \in runs
        /\ run.pc = "parse"
        /\ IF ~parsed.ok
           THEN /\ SetStatus(run, "error")
                /\ SetErrors(run, parsed.message)
                /\ runs' = runs \ {run}
           ELSE IF Len(parsed.header) = 0 /\ Len(parsed.rows) = 0
           THEN /\ SetStatus(run, "error")
                /\ SetErrors(run, "File is empty or could not be parsed.")
                /\ runs' = runs \ {run}
           ELSE /\ SetStatus(run, "insights")
                /\ UNCHANGED errors
                /\ runs' = (runs \ {run}) \cup
                       {[run EXCEPT !.pc = "insights",
                                    !.basicProfile = BasicProfile(parsed.header, parsed.rows)]}
        /\ last' = NoApply
        /\ UNCHANGED <<files, activePage, profiles, activeFile, loadingStates,
                       suggestions, fetches, selectedActions, applies,
                       relationships, modeling, requests>>

\* { ...basicProfile, aiInsights: insights }
FullProfile(basicProfile, insights) ==
    [rowCount |-> basicProfile.rowCount,
     columnCount |-> basicProfile.columnCount,
     columns |-> basicProfile.columns,
     aiInsights |-> insights]

\* generateInsightsFromProfile resolves: steps 6 and 7
InsightsDone(run) ==
    /\ run \in runs
    /\ run.pc = "insights"
    /\ profiles' = Put(profiles, run.file.name,
                       FullProfile(run.basicProfile, "insights"))
    /\ SetStatus(run, "complete")
    /\ runs' = runs \ {run}
    /\ last' = NoApply
    /\ UNCHANGED <<files, activePage, errors, activeFile, loadingStates, suggestions,
                   fetches, selectedActions, applies,
                   relationships, modeling, requests>>

\* generateInsightsFromProfile throws: the catch sets status 'error' and the
\* message
InsightsFail(run) ==
    /\ run \in runs
    /\ run.pc = "insights"
    /\ SetStatus(run, "error")
    /\ SetErrors(run, "Failed to generate insights.")
    /\ runs' = runs \ {run}
    /\ last' = NoApply
    /\ UNCHANGED <<files, activePage, profiles, activeFile, loadingStates,
                   suggestions, fetches, selectedActions, applies,
                   relationships, modeling, requests>>

LoadingState(fileName) ==
    IF fileName \in DOMAIN loadingStates THEN loadingStates[fileName] ELSE "pending"

\* DataCleaning's effect: fetchSuggestionsForFile(activeFile) up to its await
FetchSuggestions ==
    /\ activePage = "Data Cleaning"
    /\ activeFile # Null
    /\ LoadingState(activeFile) \notin {"loading", "done"}
    /\ IF activeFile \in DOMAIN profiles
       THEN /\ loadingStates' = Put(loadingStates, activeFile, "loading")
            /\ fetches' = fetches \cup
                   {[fileName |-> activeFile,
                     issues |-> IssuesToFetch(activeFile, profiles[activeFile])]}
       ELSE /\ loadingStates' = Put(loadingStates, activeFile, "error")
            /\ UNCHANGED fetches
    /\ last' = NoApply
    /\ UNCHANGED <<files, activePage, profiles, status, errors, runs, activeFile,
                   suggestions, selectedActions, applies,
                   relationships, modeling, requests>>

\* the collaborator answered every issue of a fetch with response: Promise.all
\* resolves when generateCleaningSuggestions returns, and rejects when it throws
FetchAnswered(fetch, response) ==
    /\ fetch \in fetches
    /\ LET sugs == generateCleaningSuggestions(response)
       IN  IF sugs.ok \/ fetch.issues = <<>>
           THEN /\ suggestions' =
                       Put(suggestions, fetch.fileName,
                           FileSuggestions(fetch.issues,
                                           IF sugs.ok THEN sugs.value ELSE <<>>))
                /\ loadingStates' = Put(loadingStates, fetch.fileName, "done")
           ELSE /\ loadingStates' = Put(loadingStates, fetch.fileName, "error")
                /\ UNCHANGED suggestions
    /\ fetches' = fetches \ {fetch}
    /\ last' = NoApply
    /\ UNCHANGED <<files, activePage, profiles, status, errors, runs, activeFile,
                   selectedActions, applies,
                   relationships, modeling, requests>>

\* Promise.all resolves: every issue got the collaborator's answer
FetchDone(fetch) == FetchAnswered(fetch, Response(AllSuggestions))

\* Promise.all rejects
FetchFail(fetch) ==
    /\ fetch \in fetches
    /\ fetch.issues # <<>>
    /\ loadingStates' = Put(loadingStates, fetch.fileName, "error")
    /\ fetches' = fetches \ {fetch}
    /\ last' = NoApply
    /\ UNCHANGED <<files, activePage, profiles, status, errors, runs, activeFile,
                   suggestions, selectedActions, applies,
                   relationships, modeling, requests>>

\* the tabs: setActiveFile(file.name)
SetActiveFile(i) ==
    /\ activePage = "Data Cleaning"
    /\ i \in DOMAIN files
    /\ activeFile' = files[i].name
    /\ last' = NoApply
    /\ UNCHANGED <<files, activePage, profiles, status, errors, runs, loadingStates,
                   suggestions, fetches, selectedActions, applies,
                   relationships, modeling, requests>>

SelectionKey(file, column) == file \o "-" \o column

\* the cards renderActiveFileContent shows with radio buttons: the columns of
\* the active file's profile that have missing values or are mixed, and have
\* suggestions
columnsWithIssues ==
    IF /\ activePage = "Data Cleaning"
       /\ activeFile # Null
       /\ LoadingState(activeFile) \notin {"loading", "error"}
       /\ activeFile \in DOMAIN profiles
       /\ activeFile \in DOMAIN suggestions
    THEN {c \in DOMAIN profiles[activeFile].columns :
             LET col == profiles[activeFile].columns[c]
             IN  /\ HasMissing(col) \/ col.dataType = "mixed"
                 /\ col.name \in DOMAIN suggestions[activeFile]}
    ELSE {}

\* the suggestions staged for a (file, column) pair: the entries of
\* selectedActions that Apply Changes reads for it
StagedFor(selected, file, column) ==
    {selected[k].suggestion :
        k \in {key \in DOMAIN selected :
                  selected[key].file = file /\ selected[key].column = column}}

\* the (file, column) pairs with an entry
StagedPairs(selected) ==
    {<<selected[k].file, selected[k].column>> : k \in DOMAIN selected}

\* setSelectedActions(prev => ({ ...prev, [key]: { file, column, suggestion } }))
\* ; the variant keys the entry by the action as well
StageByAction(selected, file, column, suggestion) ==
    Put(selected, SelectionKey(file, column) \o "-" \o suggestion.action,
        [file |-> file, column |-> column, suggestion |-> suggestion])

Stage(selected, file, column, suggestion) ==
    Put(selected, SelectionKey(file, column),
        [file |-> file, column |-> column, suggestion |-> suggestion])

\* handleActionSelect(file, column, suggestion), from a radio button; last
\* records whether the pair had a selection
HandleActionSelect ==
    /\ \E c \in columnsWithIssues :
          LET column == profiles[activeFile].columns[c].name
          IN  \E suggestion \in Range(suggestions[activeFile][column]) :
                 /\ selectedActions' =
                        Stage(selectedActions, activeFile, column, suggestion)
                 /\ last' = [applied |-> FALSE,
                             restaged |-> \E k \in DOMAIN selectedActions :
                                 /\ selectedActions[k].file = activeFile
                                 /\ selectedActions[k].column = column
                                 /\ selectedActions[k].suggestion # suggestion]
    /\ UNCHANGED <<files, activePage, profiles, status, errors, runs, activeFile,
                   loadingStates, suggestions, fetches, applies,
                   relationships, modeling, requests>>

\* the orders Object.values(selectedActions) can have: the order of insertion
Orderings(m) ==
    {o \in [1 .. Cardinality(DOMAIN m) -> DOMAIN m] :
        \A i, j \in DOMAIN o : i # j => o[i] # o[j]}

\* handleApplyChanges: setProfiles(newProfiles), then onProceed(); it runs
\* while fewer than maxApplies runs were made
HandleApplyChangesWithin(maxApplies) ==
    /\ activePage = "Data Cleaning"
    /\ files # <<>>
    /\ applies < maxApplies
    /\ \E o \in Orderings(selectedActions) :
          LET actions == [i \in DOMAIN o |-> selectedActions[o[i]]]
          IN  /\ profiles' = ApplyChanges(profiles, actions)
              /\ last' = [applied |-> TRUE, before |-> profiles, actions |-> actions]
    /\ applies' = applies + 1
    /\ activePage' = "Data Modeling"
    /\ activeFile' = Null
    /\ loadingStates' = EmptyMap
    /\ suggestions' = EmptyMap
    /\ fetches' = {}
    /\ selectedActions' = EmptyMap
    /\ modeling' = NewModeling
    /\ requests' = Abandoned(requests)
    /\ UNCHANGED <<files, status, errors, runs, relationships>>

HandleApplyChanges == HandleApplyChangesWithin(MaxApplies)

\* DataModeling's effect, which runs when the page is mounted and when
\* profiles is another value: fetchSuggestions() up to its await
ModelingEffect ==
    /\ activePage = "Data Modeling"
    /\ IF modeling.seen.any THEN modeling.seen.profiles # profiles ELSE TRUE
    /\ Len(requests) < MaxRequests
    /\ modeling' = [modeling EXCEPT !.isLoading = TRUE, !.error = Null,
                                    !.seen = [any |-> TRUE, profiles |-> profiles]]
    /\ requests' = Append(requests, [fewFiles |-> Cardinality(DOMAIN profiles) < 2,
                                     stale |-> FALSE])
    /\ last' = NoApply
    /\ UNCHANGED <<files, activePage, profiles, status, errors, runs, activeFile,
                   loadingStates, suggestions, fetches, selectedActions, applies,
                   relationships>>

\* generateRelationshipSuggestions settles: setSuggestions(result) or
\* setError(err.message), and setIsLoading(false)
RelationshipsAnswered(i, response) ==
    /\ i \in DOMAIN requests
    /\ LET result == generateRelationshipSuggestions(requests[i].fewFiles, response)
       IN  modeling' =
               IF requests[i].stale THEN modeling
               ELSE IF result.ok
               THEN [modeling EXCEPT !.suggestions = result.value, !.isLoading = FALSE]
               ELSE [modeling EXCEPT !.error = result.message, !.isLoading = FALSE]
    /\ requests' = RemoveAt(requests, i)
    /\ last' = NoApply
    /\ UNCHANGED <<files, activePage, profiles, status, errors, runs, activeFile,
                   loadingStates, suggestions, fetches, selectedActions, applies,
                   relationships>>

Relationship(fromTable, fromColumn, toTable, toColumn, type) ==
    [fromTable |-> fromTable, fromColumn |-> fromColumn, toTable |-> toTable,
     toColumn |-> toColumn, type |-> type]

RelationshipSuggestion(relationship, confidence) ==
    [fromTable |-> relationship.fromTable, fromColumn |-> relationship.fromColumn,
     toTable |-> relationship.toTable, toColumn |-> relationship.toColumn,
     type |-> relationship.type, confidence |-> confidence, reason |-> "reason"]

\* newRelationship of handleAcceptSuggestion
NewRelationship(suggestion) ==
    Relationship(suggestion.fromTable, suggestion.fromColumn, suggestion.toTable,
                 suggestion.toColumn, suggestion.type)

\* JSON.stringify of a Relationship: the fields in the order they were written,
\* those that are undefined left out
JsonStringify(relationship) ==
    SelectSeq(<<<<"fromTable", relationship.fromTable>>,
                <<"fromColumn", relationship.fromColumn>>,
                <<"toTable", relationship.toTable>>,
                <<"toColumn", relationship.toColumn>>,
                <<"type", relationship.type>>>>,
              LAMBDA field : field[2] # Undefined)

\* the relationships after handleAcceptSuggestion ; the variant adds the
\* relationship whatever the list holds
AddRelationshipAlways(list, newRelationship) == Append(list, newRelationship)

AddRelationship(list, newRelationship) ==
    IF \E i \in DOMAIN list : JsonStringify(list[i]) = JsonStringify(newRelationship)
    THEN list
    ELSE Append(list, newRelationship)

\* handleAcceptSuggestion(suggestion), from the Accept button of the i-th
\* suggestion shown; prev.filter(s => s !== suggestion) drops that one object
HandleAcceptSuggestion(i) ==
    /\ activePage = "Data Modeling"
    /\ Cardinality(DOMAIN profiles) >= 2
    /\ i \in DOMAIN modeling.suggestions
    /\ relationships' =
           AddRelationship(relationships, NewRelationship(modeling.suggestions[i]))
    /\ modeling' = [modeling EXCEPT !.suggestions = RemoveAt(@, i)]
    /\ last' = [applied |-> FALSE, accepted |-> modeling.suggestions[i],
                pending |-> modeling.suggestions, relationships |-> relationships]
    /\ UNCHANGED <<files, activePage, profiles, status, errors, runs, activeFile,
                   loadingStates, suggestions, fetches, selectedActions, applies,
                   requests>>

\* handleRemoveRelationship(index), from the button of a defined relationship
HandleRemoveRelationship(index) ==
    /\ activePage = "Data Modeling"
    /\ Cardinality(DOMAIN profiles) >= 2
    /\ index \in DOMAIN relationships
    /\ relationships' = RemoveAt(relationships, index)
    /\ last' = NoApply
    /\ UNCHANGED <<files, activePage, profiles, status, errors, runs, activeFile,
                   loadingStates, suggestions, fetches, selectedActions, applies,
                   modeling, requests>>

\* what the collaborator may answer about the tables sales.csv and costs.CSV:
\* a suggestion twice, with another confidence, and one that lacks its type
RelationshipResponses ==
    LET SalesToCosts == Relationship("sales.csv", "A", "costs.CSV", "A", "One-to-Many")
        CostsToSales == Relationship("costs.CSV", "A", "sales.csv", "A", "Many-to-One")
        Untyped == Relationship("sales.csv", "A", "costs.CSV", "A", Undefined)
    IN  {NoJson, NoList,
         Response(<<RelationshipSuggestion(SalesToCosts, "High"),
                    RelationshipSuggestion(SalesToCosts, "High"),
                    RelationshipSuggestion(SalesToCosts, "Low")>>),
         Response(<<RelationshipSuggestion(CostsToSales, "Medium"),
                    RelationshipSuggestion(Untyped, "Low")>>)}

Next ==
    \/ \E newFiles \in FileLists(SessionFiles, MaxFiles) : HandleDrop(newFiles)
    \/ \E page \in Pages : Navigate(page)
    \/ ProceedToProfiling
    \/ ProceedToCleaning
    \/ ProfilingEffect
    \/ \E run \in runs : ParseDone(run)
    \/ \E run \in runs : InsightsDone(run)
    \/ \E run \in runs : InsightsFail(run)
    \/ FetchSuggestions
    \/ \E fetch \in fetches : FetchDone(fetch)
    \/ \E fetch \in fetches : FetchFail(fetch)
    \/ \E i \in DOMAIN files : SetActiveFile(i)
    \/ HandleActionSelect
    \/ HandleApplyChanges
    \/ \E index \in DOMAIN files : RemoveFile(index)
    \/ ModelingEffect
    \/ \E i \in DOMAIN requests : \E response \in RelationshipResponses :
          RelationshipsAnswered(i, response)
    \/ \E i \in DOMAIN modeling.suggestions : HandleAcceptSuggestion(i)
    \/ \E index \in DOMAIN relationships : HandleRemoveRelationship(index)

Spec == Init /\ [][Next]_vars

-----------------------------------------------------------------------------
(* A session from its start: files are dropped on the upload page, and the  *)
(* sidebar is used to go to the upload, profiling and cleaning pages        *)

SessionInit == Init

SessionNext ==
    \/ \E newFiles \in FileLists(SessionFiles, MaxFiles) : HandleDrop(newFiles)
    \/ \E page \in {"Data Upload", "Data Profiling", "Data Cleaning"} : Navigate(page)
    \/ ProceedToProfiling
    \/ ProceedToCleaning
    \/ ProfilingEffect
    \/ \E run \in runs : ParseDone(run)
    \/ \E run \in runs : InsightsDone(run)
    \/ \E run \in runs : InsightsFail(run)
    \/ FetchSuggestions
    \/ \E fetch \in fetches : FetchDone(fetch)
    \/ \E fetch \in fetches : FetchFail(fetch)
    \/ \E i \in DOMAIN files : SetActiveFile(i)
    \/ HandleActionSelect
    \/ HandleApplyChanges

SessionSpec == SessionInit /\ [][SessionNext]_vars

-----------------------------------------------------------------------------
(* The profiler on its own: a file is uploaded, profiled, and the wizard is *)
(* followed to the cleaning page                                            *)

ProfilerInit == \E f \in ProfilerFiles : InitWith(<<f>>)

ProfilerNext ==
    \/ ProceedToProfiling
    \/ ProfilingEffect
    \/ \E run \in runs : ParseDone(run)
    \/ \E run \in runs : InsightsDone(run)
    \/ \E run \in runs : InsightsFail(run)
    \/ ProceedToCleaning

ProfilerSpec == ProfilerInit /\ [][ProfilerNext]_vars

-----------------------------------------------------------------------------
(* A batch of files, some of which parseFile rejects, is profiled *)

BatchInit == \E fileList \in FileLists(BatchFiles, MaxFiles) : InitWith(fileList)

BatchSpec == BatchInit /\ [][ProfilerNext]_vars

-----------------------------------------------------------------------------
(* The cleaning engine: the wizard is followed to the cleaning page, which  *)
(* is entered again from the sidebar after every Apply Changes              *)

CleaningInit == \E f \in CleaningFiles : InitWith(<<f>>)

CleaningNext ==
    \/ ProceedToProfiling
    \/ ProfilingEffect
    \/ \E run \in runs : ParseDone(run)
    \/ \E run \in runs : InsightsDone(run)
    \/ \E run \in runs : InsightsFail(run)
    \/ ProceedToCleaning
    \/ Navigate("Data Cleaning")
    \/ FetchSuggestions
    \/ \E fetch \in fetches : FetchDone(fetch)
    \/ \E fetch \in fetches : FetchFail(fetch)
    \/ HandleActionSelect
    \/ HandleApplyChanges

CleaningSpec == CleaningInit /\ [][CleaningNext]_vars

-----------------------------------------------------------------------------
(* A batch on the profiling page, which is not left: every parseFile and    *)
(* every insights call that is awaited settles                              *)

SettlingNext ==
    \/ ProceedToProfiling
    \/ ProfilingEffect
    \/ \E run \in runs : ParseDone(run)
    \/ \E run \in runs : InsightsDone(run)
    \/ \E run \in runs : InsightsFail(run)

SettlingSpec ==
    /\ BatchInit
    /\ [][SettlingNext]_vars
    /\ WF_vars(ProfilingEffect)
    /\ WF_vars(\E run \in runs : ParseDone(run))
    /\ WF_vars(\E run \in runs : InsightsDone(run) \/ InsightsFail(run))

-----------------------------------------------------------------------------
(* The upload queue: files are added and removed between profiling runs *)

RemovalNext ==
    \/ \E newFiles \in FileLists({SalesAgainFile, CostsFile}, MaxFiles) : HandleDrop(newFiles)
    \/ \E index \in DOMAIN files : RemoveFile(index)
    \/ \E page \in {"Data Upload", "Data Profiling", "Data Modeling"} : Navigate(page)
    \/ ProceedToProfiling
    \/ ProfilingEffect
    \/ \E run \in runs : ParseDone(run)
    \/ \E run \in runs : InsightsDone(run)
    \/ \E run \in runs : InsightsFail(run)

RemovalSpec == Init /\ [][RemovalNext]_vars

-----------------------------------------------------------------------------
(* The modeling page of a session with two profiled files *)

ModelingInit == InitWith(<<SalesAgainFile, CostsFile>>)

ModelingNext ==
    \/ ProceedToProfiling
    \/ ProfilingEffect
    \/ \E run \in runs : ParseDone(run)
    \/ \E run \in runs : InsightsDone(run)
    \/ \E run \in runs : InsightsFail(run)
    \/ \E page \in {"Data Profiling", "Data Modeling"} : Navigate(page)
    \/ ModelingEffect
    \/ \E i \in DOMAIN requests : \E response \in RelationshipResponses :
          RelationshipsAnswered(i, response)
    \/ \E i \in DOMAIN modeling.suggestions : HandleAcceptSuggestion(i)
    \/ \E index \in DOMAIN relationships : HandleRemoveRelationship(index)

ModelingSpec == ModelingInit /\ [][ModelingNext]_vars

-----------------------------------------------------------------------------
(* Two files on the cleaning page whose names and column names hold the     *)
(* separator of the selection key                                           *)

SelectionInit ==
    InitWith(<<File("sales.csv", <<"old.csv-A">>, <<<<Blank>>, <<One>>>>),
               File("sales.csv-old.csv", <<"A">>, <<<<Blank>>, <<One>>>>)>>)

SelectionNext ==
    \/ ProceedToProfiling
    \/ ProfilingEffect
    \/ \E run \in runs : ParseDone(run)
    \/ \E run \in runs : InsightsDone(run)
    \/ \E run \in runs : InsightsFail(run)
    \/ ProceedToCleaning
    \/ Navigate("Data Cleaning")
    \/ FetchSuggestions
    \/ \E fetch \in fetches :
          FetchAnswered(fetch, Response(<<Suggestion("REMOVE_ROWS", Null),
                                          Suggestion("FILL_MEAN", Null)>>))
    \/ \E fetch \in fetches : FetchFail(fetch)
    \/ \E i \in DOMAIN files : SetActiveFile(i)
    \/ HandleActionSelect
    \/ HandleApplyChanges

SelectionSpec == SelectionInit /\ [][SelectionNext]_vars

-----------------------------------------------------------------------------
(* The collaborator's answers on the cleaning page: texts that are not JSON, *)
(* objects without a list, and lists whose items lack the action             *)

ServiceInit == \E f \in SessionFiles : InitWith(<<f>>)

CleaningResponses ==
    {NoJson, NoList, Response(<<>>),
     Response(<<Suggestion("REMOVE_ROWS", Null)>>),
     Response(<<Suggestion("FILL_MEAN", Null), Suggestion(Undefined, Null)>>)}

ServiceNext ==
    \/ ProceedToProfiling
    \/ ProfilingEffect
    \/ \E run \in runs : ParseDone(run)
    \/ \E run \in runs : InsightsDone(run)
    \/ \E run \in runs : InsightsFail(run)
    \/ ProceedToCleaning
    \/ Navigate("Data Cleaning")
    \/ FetchSuggestions
    \/ \E fetch \in fetches : \E response \in CleaningResponses :
          FetchAnswered(fetch, response)
    \/ \E fetch \in fetches : FetchFail(fetch)
    \/ HandleActionSelect
    \/ HandleApplyChanges

ServiceSpec == ServiceInit /\ [][ServiceNext]_vars

-----------------------------------------------------------------------------
(* The cleaning engine run several times on one file whose rows are all     *)
(* removed by the first run                                                 *)

\* the file: A and C a number and a word, B blank in both rows
RepeatedInit ==
    InitWith(<<File("sales.csv", <<"A", "B", "C">>,
                    <<<<One, Blank, One>>, <<Word, Blank, Word>>>>)>>)

RepeatedNext ==
    \/ ProceedToProfiling
    \/ ProfilingEffect
    \/ \E run \in runs : ParseDone(run)
    \/ \E run \in runs : InsightsDone(run)
    \/ \E run \in runs : InsightsFail(run)
    \/ ProceedToCleaning
    \/ Navigate("Data Cleaning")
    \/ FetchSuggestions
    \/ \E fetch \in fetches :
          FetchAnswered(fetch, Response(<<Suggestion("REMOVE_ROWS", Null),
                                          Suggestion("CHANGE_TYPE", "number"),
                                          Suggestion("TRIM_WHITESPACE", Null)>>))
    \/ \E fetch \in fetches : FetchFail(fetch)
    \/ HandleActionSelect
    \/ HandleApplyChangesWithin(MaxRepeatedApplies)

RepeatedSpec == RepeatedInit /\ [][RepeatedNext]_vars

-----------------------------------------------------------------------------
(* Properties of the profiler, over ProfilerSpec *)

\* the rows of a parsed file whose cell in column c is there, is not null and
\* is not blank
NonMissingRows(file, c) ==
    {r \in DOMAIN file.rows :
        /\ c <= Len(file.rows[r])
        /\ file.rows[r][c].t # "null"
        /\ Trim(ToStringOf(file.rows[r][c])) # <<>>}

NumericRows(file, c) ==
    {r \in NonMissingRows(file, c) : isNumeric(ToStringOf(file.rows[r][c]))}

ColumnNames(profile) == [c \in DOMAIN profile.columns |-> profile.columns[c].name]

\* C1: in every profile the profiling pipeline stores, every column's
\* missingValues plus the number of its non-missing cells is the file's
\* rowCount, the number of data rows, whether a row is shorter or longer than
\* the header.
C1_CountInvariant ==
    \A i \in DOMAIN files :
        files[i].name \in DOMAIN profiles =>
            LET p == profiles[files[i].name]
            IN  /\ p.rowCount = Len(files[i].rows)
                /\ DOMAIN p.columns = DOMAIN files[i].header
                /\ \A c \in DOMAIN p.columns :
                      p.columns[c].missingValues
                          + Cardinality(NonMissingRows(files[i], c)) = p.rowCount

\* a stored profile of a file with a row shorter and a row longer than the
\* header, and a column that has missing and non-missing cells
C1_Witness ==
    \E i \in DOMAIN files :
        /\ files[i].name \in DOMAIN profiles
        /\ \E r \in DOMAIN files[i].rows : Len(files[i].rows[r]) < Len(files[i].header)
        /\ \E r \in DOMAIN files[i].rows : Len(files[i].rows[r]) > Len(files[i].header)
        /\ \E c \in DOMAIN profiles[files[i].name].columns :
              LET col == profiles[files[i].name].columns[c]
              IN  /\ col.missingValues > 0
                  /\ NonMissingRows(files[i], c) # {}
                  /\ col.missingValues + Cardinality(NonMissingRows(files[i], c))
                         = profiles[files[i].name].rowCount

\* the values '10', '20.5', '-3' and the values '10', 'abc', ''
NumberExample ==
    <<<<Str(<<"1", "0">>)>>, <<Str(<<"2", "0", ".", "5">>)>>, <<Str(<<"-", "3">>)>>>>

MixedExample ==
    <<<<Str(<<"1", "0">>)>>, <<Str(<<"a", "b", "c">>)>>, <<Blank>>>>

\* C2: the dataType of a profiled column is unknown iff it has no non-missing
\* value; otherwise number iff every non-missing value is numeric, string iff
\* none is, and mixed iff some are and some are not.  nonNumericCount is a
\* field of the column exactly when it is mixed, and is then the number of
\* non-missing values that are not numeric.  '10', '20.5', '-3' is a number
\* column with 0 missing and 3 unique values; '10', 'abc', '' is a mixed column
\* with 1 missing value and nonNumericCount 1.
C2_TypeInference ==
    \A i \in DOMAIN files :
        files[i].name \in DOMAIN profiles =>
            LET p == profiles[files[i].name]
            IN  /\ \A c \in DOMAIN p.columns :
                      LET col     == p.columns[c]
                          present == NonMissingRows(files[i], c)
                          numeric == NumericRows(files[i], c)
                          other   == present \ numeric
                      IN  /\ col.dataType \in {"unknown", "number", "string", "mixed"}
                          /\ col.dataType = "unknown" <=> present = {}
                          /\ col.dataType = "number" <=> present # {} /\ other = {}
                          /\ col.dataType = "string" <=> present # {} /\ numeric = {}
                          /\ col.dataType = "mixed" <=> numeric # {} /\ other # {}
                          /\ HasNonNumericCount(col) <=> col.dataType = "mixed"
                          /\ HasNonNumericCount(col) =>
                                col.nonNumericCount = Cardinality(other)
                /\ files[i].rows = NumberExample =>
                      p.columns[1] = [name |-> files[i].header[1], dataType |-> "number",
                                      missingValues |-> 0, uniqueValues |-> 3]
                /\ files[i].rows = MixedExample =>
                      p.columns[1] = [name |-> files[i].header[1], dataType |-> "mixed",
                                      missingValues |-> 1, uniqueValues |-> 2,
                                      nonNumericCount |-> 1]

\* the stored profile of the column '10', 'abc', ''
C2_Witness ==
    \E i \in DOMAIN files :
        /\ files[i].rows = MixedExample
        /\ files[i].name \in DOMAIN profiles
        /\ profiles[files[i].name].columns[1].dataType = "mixed"
        /\ profiles[files[i].name].columns[1].nonNumericCount = 1
        /\ profiles[files[i].name].columns[1].missingValues = 1

-----------------------------------------------------------------------------
(* Properties of the cleaning engine, over CleaningSpec.  In the state an   *)
(* Apply Changes leaves, last holds the profiles and the selections it read *)

\* the selections the latest Apply Changes read for file f, as iterated
LastActions(f) == SelectSeq(last.actions, LAMBDA a : a.file = f)

\* the columns of f, as they were before the latest Apply Changes, that a
\* selection of one of the kinds names
Targets(f, kinds) ==
    LET acts == LastActions(f)
    IN  {FindColumn(last.before[f].columns, acts[k].column) :
            k \in {j \in DOMAIN acts : acts[j].suggestion.action \in kinds}} \ {0}

SetMax(S) == IF S = {} THEN 0 ELSE CHOOSE m \in S : \A x \in S : x <= m

\* R: the largest missingValues, before the apply, of the REMOVE_ROWS columns
RowsRemoved(f) ==
    SetMax({last.before[f].columns[c].missingValues : c \in Targets(f, {"REMOVE_ROWS"})}
           \cup {0})

\* round(m * r / rc) in exact arithmetic, halves up
RoundedShare(m, r, rc) == (2 * m * r + rc) \div (2 * rc)

\* missingValues of column c of f after the effect of the column's own selection
OwnMissing(f, c) ==
    ApplyActions([columns |-> JsonCopy(last.before)[f].columns, maxRowsToRemove |-> 0],
                 LastActions(f)).columns[c].missingValues

\* C3: Apply Changes lowers a file's rowCount by R, the maximum (not the sum)
\* of the missingValues the columns selected for REMOVE_ROWS had before the
\* apply, and not below 0; without a REMOVE_ROWS selection R is 0 and rowCount
\* is unchanged.
C3_RowCount ==
    last.applied =>
        \A f \in DOMAIN last.before :
            profiles[f].rowCount = Max(0, last.before[f].rowCount - RowsRemoved(f))

\* an apply with REMOVE_ROWS on two columns of different positive missingValues
C3_Witness ==
    /\ last.applied
    /\ \E f \in DOMAIN last.before :
          /\ \E c, d \in Targets(f, {"REMOVE_ROWS"}) :
                /\ last.before[f].columns[c].missingValues > 0
                /\ last.before[f].columns[d].missingValues
                       > last.before[f].columns[c].missingValues
          /\ profiles[f].rowCount > 0
          /\ profiles[f].rowCount = last.before[f].rowCount - RowsRemoved(f)

\* no two columns of f have the same name
DistinctNames(f) ==
    \A c, d \in DOMAIN last.before[f].columns :
        last.before[f].columns[c].name = last.before[f].columns[d].name => c = d

\* C4: when Apply Changes removes R > 0 rows from a file (of distinct column
\* names), every column selected for REMOVE_ROWS ends with missingValues 0,
\* and every other column ends with its missingValues (after its own
\* selection's effect) less round(missingValues * R / rowCount before the
\* apply), and not below 0.
C4_Propagation ==
    last.applied =>
        \A f \in DOMAIN last.before :
            (RowsRemoved(f) > 0 /\ DistinctNames(f)) =>
                /\ last.before[f].rowCount > 0
                /\ \A c \in DOMAIN profiles[f].columns :
                      profiles[f].columns[c].missingValues =
                          IF c \in Targets(f, {"REMOVE_ROWS"}) THEN 0
                          ELSE Max(0, OwnMissing(f, c)
                                      - RoundedShare(OwnMissing(f, c), RowsRemoved(f),
                                                     last.before[f].rowCount))

\* C4, the worked example: rowCount 100, A missing 10 with REMOVE_ROWS and B
\* missing 20 with no selection give rowCount 90, A 0 and B 18.
C4_Example ==
    (/\ last.applied
     /\ files = <<ExampleFile>>
     /\ "sales.csv" \in DOMAIN last.before
     /\ last.before["sales.csv"].columns[1].missingValues = 10
     /\ last.before["sales.csv"].columns[2].missingValues = 20
     /\ Len(last.actions) = 1
     /\ last.actions[1].column = "A"
     /\ last.actions[1].suggestion.action = "REMOVE_ROWS")
    => /\ profiles["sales.csv"].rowCount = 90
       /\ profiles["sales.csv"].columns[1].missingValues = 0
       /\ profiles["sales.csv"].columns[2].missingValues = 18

\* C5: Apply Changes gives the column of a CHANGE_TYPE selection the target
\* type (number or string).  When the target is number and the column had a
\* positive nonNumericCount, nonNumericCount becomes 0 and the count is added
\* to missingValues: the column ends with the sum when no rows are removed from
\* the file, and with the sum less its share of the removed rows otherwise.
C5_ChangeType ==
    last.applied =>
        \A f \in DOMAIN last.before :
            \A k \in DOMAIN LastActions(f) :
                LET a    == LastActions(f)[k]
                    c    == FindColumn(last.before[f].columns, a.column)
                    pre  == last.before[f].columns[c]
                    post == profiles[f].columns[c]
                IN  (/\ c # 0
                     /\ a.suggestion.action = "CHANGE_TYPE"
                     /\ a.suggestion.targetType \in {"number", "string"})
                    => /\ post.dataType = a.suggestion.targetType
                       /\ (/\ a.suggestion.targetType = "number"
                           /\ HasNonNumericCount(pre)
                           /\ pre.nonNumericCount > 0)
                          => /\ HasNonNumericCount(post)
                             /\ post.nonNumericCount = 0
                             /\ IF RowsRemoved(f) = 0
                                THEN post.missingValues
                                         = pre.missingValues + pre.nonNumericCount
                                ELSE /\ post.missingValues \in Nat
                                     /\ post.missingValues
                                            <= pre.missingValues + pre.nonNumericCount

\* the worked example: mixed, nonNumericCount 5, missingValues 2, CHANGE_TYPE
\* to number gives number, missingValues 7, nonNumericCount 0
C5_Witness ==
    /\ last.applied
    /\ \E f \in DOMAIN last.before :
          \E k \in DOMAIN LastActions(f) :
              LET a == LastActions(f)[k]
                  c == FindColumn(last.before[f].columns, a.column)
              IN  /\ c # 0
                  /\ a.suggestion.action = "CHANGE_TYPE"
                  /\ a.suggestion.targetType = "number"
                  /\ last.before[f].columns[c].dataType = "mixed"
                  /\ last.before[f].columns[c].nonNumericCount = 5
                  /\ last.before[f].columns[c].missingValues = 2
                  /\ profiles[f].columns[c].dataType = "number"
                  /\ profiles[f].columns[c].missingValues = 7
                  /\ profiles[f].columns[c].nonNumericCount = 0

\* C6: in every profile, a column whose dataType is not mixed has no
\* nonNumericCount, or has nonNumericCount 0.
C6_CountOnlyWhenMixed ==
    \A f \in DOMAIN profiles :
        \A c \in DOMAIN profiles[f].columns :
            LET col == profiles[f].columns[c]
            IN  col.dataType # "mixed" =>
                    \/ ~HasNonNumericCount(col)
                    \/ col.nonNumericCount = 0

DescriptorsOf(issues, columnName, issueType) ==
    {k \in DOMAIN issues :
        issues[k].columnName = columnName /\ issues[k].issueType = issueType}

\* C8: for every profile, the issue detector's list has a missing_values
\* descriptor for a column exactly when its missingValues > 0 and a
\* mixed_type descriptor exactly when its dataType is mixed and its
\* nonNumericCount > 0, so at most two for a column; a column of type unknown
\* (all its values missing) gets no mixed_type descriptor; and the list a
\* request in flight was given is the list the detector gives now.
C8_IssueDetector ==
    /\ \A f \in DOMAIN profiles :
          LET p      == profiles[f]
              issues == IssuesToFetch(f, p)
              names  == {p.columns[c].name : c \in DOMAIN p.columns}
          IN  /\ \A k \in DOMAIN issues :
                    /\ issues[k].fileName = f
                    /\ issues[k].columnName \in names
                    /\ issues[k].issueType \in {"missing_values", "mixed_type"}
                    /\ issues[k].details.totalRows = p.rowCount
              /\ \A n \in names :
                    /\ Cardinality(DescriptorsOf(issues, n, "missing_values")) =
                           Cardinality({c \in DOMAIN p.columns :
                                           /\ p.columns[c].name = n
                                           /\ p.columns[c].missingValues \in Nat
                                           /\ p.columns[c].missingValues > 0})
                    /\ Cardinality(DescriptorsOf(issues, n, "mixed_type")) =
                           Cardinality({c \in DOMAIN p.columns :
                                           /\ p.columns[c].name = n
                                           /\ p.columns[c].dataType = "mixed"
                                           /\ HasNonNumericCount(p.columns[c])
                                           /\ p.columns[c].nonNumericCount > 0})
              /\ \A c \in DOMAIN p.columns :
                    LET own == ColumnIssues(f, p, p.columns[c])
                    IN  /\ Len(own) <= 2
                        /\ p.columns[c].dataType = "unknown" =>
                              \A k \in DOMAIN own : own[k].issueType = "missing_values"
                        /\ (p.columns[c].dataType = "unknown"
                            /\ p.columns[c].missingValues \in Nat
                            /\ p.columns[c].missingValues > 0) => Len(own) = 1
    /\ \A fetch \in fetches :
          /\ fetch.fileName \in DOMAIN profiles
          /\ fetch.issues = IssuesToFetch(fetch.fileName, profiles[fetch.fileName])

\* a request in flight for a column that has both issues
C8_Witness ==
    \E fetch \in fetches :
        /\ Len(fetch.issues) = 2
        /\ fetch.issues[1].columnName = fetch.issues[2].columnName
        /\ fetch.issues[1].issueType = "missing_values"
        /\ fetch.issues[2].issueType = "mixed_type"
        /\ fetch.issues[1].details.missingCount = 2
        /\ fetch.issues[2].details.nonNumericCount = 5

HasFill(actions) ==
    \E k \in DOMAIN actions :
        actions[k].suggestion.action \in
            {"FILL_MEAN", "FILL_MEDIAN", "FILL_MODE", "FILL_CUSTOM"}

\* C9: applying the selections of an Apply Changes again to its result gives
\* that result, for every action kind.
C9_Idempotent ==
    last.applied => ApplyChanges(profiles, last.actions) = profiles

\* What does hold of a second application: without a FILL selection it gives
\* the result of the first (as read back from its JSON copy), and a FILL
\* selection adds 1 to the uniqueValues of its column once more.
SecondApplication ==
    last.applied =>
        /\ ~HasFill(last.actions) =>
              ApplyChanges(profiles, last.actions) = JsonCopy(profiles)
        /\ \A f \in DOMAIN last.before :
              \A c \in Targets(f, {"FILL_MEAN", "FILL_MEDIAN", "FILL_MODE", "FILL_CUSTOM"}) :
                  ApplyChanges(profiles, last.actions)[f].columns[c].uniqueValues
                      = profiles[f].columns[c].uniqueValues + 1

\* C10: every profile has the column names of its file's header, in the
\* header's order, and columnCount = the number of its columns; Apply Changes
\* leaves the files profiled, and each file's column names, their order and
\* columnCount, as they were.
C10_SchemaPreserved ==
    /\ \A i \in DOMAIN files :
          files[i].name \in DOMAIN profiles =>
              LET p == profiles[files[i].name]
              IN  /\ p.columnCount = Len(p.columns)
                  /\ ColumnNames(p) = files[i].header
    /\ last.applied =>
          /\ DOMAIN profiles = DOMAIN last.before
          /\ \A f \in DOMAIN last.before :
                /\ profiles[f].columnCount = last.before[f].columnCount
                /\ ColumnNames(profiles[f]) = ColumnNames(last.before[f])

\* an apply that removed rows from a file of two columns and changed both
C10_Witness ==
    /\ last.applied
    /\ \E f \in DOMAIN last.before :
          /\ RowsRemoved(f) > 0
          /\ profiles[f].columnCount = 2
          /\ ColumnNames(profiles[f]) = <<"A", "B">>
          /\ \A c \in DOMAIN profiles[f].columns :
                profiles[f].columns[c] # last.before[f].columns[c]


-----------------------------------------------------------------------------
(* Properties of a session of several files, over SessionSpec *)

\* a selection whose file has no profile, or whose column the profile lacks
IsStale(profs, action) ==
    \/ action.file \notin DOMAIN profs
    \/ \A c \in DOMAIN profs[action.file].columns :
          profs[action.file].columns[c].name # action.column

\* C11: the profiles Apply Changes installs are those the selections that
\* name a column of the current profiles give; a selection that names an
\* absent column (or file) changes nothing and stops no other selection.
C11_StaleIgnored ==
    last.applied =>
        profiles = ApplyChanges(last.before,
                                SelectSeq(last.actions,
                                          LAMBDA a : ~IsStale(last.before, a)))

\* an apply that read a selection for a column the profile no longer had
\* together with a selection that changed the profile
C11_Witness ==
    /\ last.applied
    /\ \E k \in DOMAIN last.actions : IsStale(last.before, last.actions[k])
    /\ \E k \in DOMAIN last.actions : ~IsStale(last.before, last.actions[k])
    /\ profiles # JsonCopy(last.before)


-----------------------------------------------------------------------------
(* Properties of the order of the selections, over CleaningSpec *)

\* the sequences that hold the entries of s in any order
Reorderings(s) ==
    {[i \in DOMAIN s |-> s[p[i]]] :
        p \in {q \in [DOMAIN s -> DOMAIN s] : \A i, j \in DOMAIN s : i # j => q[i] # q[j]}}

\* C12: the profiles Apply Changes installs are those every order of
\* iterating the same selections over the same starting profiles gives.
C12_Deterministic ==
    last.applied =>
        \A actions \in Reorderings(last.actions) :
            ApplyChanges(last.before, actions) = profiles

\* an apply of two selections on one file, a row removal among them, that
\* changed both columns
C12_Witness ==
    /\ last.applied
    /\ Len(last.actions) = 2
    /\ last.actions[1].file = last.actions[2].file
    /\ last.actions[1].suggestion.action = "REMOVE_ROWS"
    /\ last.actions[2].suggestion.action # "REMOVE_ROWS"
    /\ \A c \in DOMAIN profiles[last.actions[1].file].columns :
          profiles[last.actions[1].file].columns[c]
              # last.before[last.actions[1].file].columns[c]


-----------------------------------------------------------------------------
(* Properties of the profiling pipelines of a session, over SessionSpec *)

\* the moves of a status flag: pending, profiling, insights, complete in
\* that order, and error from profiling or insights
StatusMoves ==
    {<<"pending", "profiling">>, <<"profiling", "insights">>,
     <<"insights", "complete">>, <<"profiling", "error">>, <<"insights", "error">>}

\* C13: while the profiling page stays mounted, the status of every file name
\* stays as it is or makes one of the moves of the flag; complete and error
\* are left by no step.
C13_StatusOrder ==
    [][activePage' = activePage =>
          \A n \in DOMAIN status \cup DOMAIN status' :
              LET now == StatusOf(n)
                  next == IF n \in DOMAIN status' THEN status'[n] ELSE "pending"
              IN  now = next \/ <<now, next>> \in StatusMoves]_vars


\* a pipeline that can still store a profile: it waits for the insights, or
\* for a parse that gives a header or rows
CanStore(run) ==
    \/ run.pc = "insights"
    \/ /\ run.pc = "parse"
       /\ ParseFile(run.file).ok
       /\ Len(ParseFile(run.file).header) + Len(ParseFile(run.file).rows) > 0

\* C14: no two pipelines in flight can store the profile of the same file
\* name.
C14_OnePipelinePerName ==
    \A r1, r2 \in runs :
        r1 # r2 /\ CanStore(r1) /\ CanStore(r2) => r1.file.name # r2.file.name


\* C15: a step other than Apply Changes keeps every stored profile, with its
\* rowCount and its column statistics.
C15_ProfileStable ==
    [][applies' = applies =>
          \A n \in DOMAIN profiles :
              /\ n \in DOMAIN profiles'
              /\ profiles'[n].rowCount = profiles[n].rowCount
              /\ profiles'[n].columns = profiles[n].columns]_vars


-----------------------------------------------------------------------------
(* Properties of the profiling of one file, over ProfilerSpec *)

\* parseFile gives the file a header or rows
Parses(file) ==
    /\ ParseFile(file).ok
    /\ Len(ParseFile(file).header) + Len(ParseFile(file).rows) > 0

\* C16: a file that parsed and whose pipeline ended in error, which then is
\* the failure of the insights call, has its basic profile stored.
C16_ProfileWithoutInsights ==
    \A i \in DOMAIN files :
        Parses(files[i]) /\ StatusOf(files[i].name) = "error" =>
            /\ files[i].name \in DOMAIN profiles
            /\ profiles[files[i].name].columns
                   = BasicProfile(files[i].header, files[i].rows).columns


-----------------------------------------------------------------------------
(* Properties of the cleaning page, over CleaningSpec *)

\* a step the user takes: a page, a tab or a file list changes, or a
\* selection is staged
UserActs ==
    \/ activePage' # activePage
    \/ activeFile' # activeFile
    \/ files' # files
    \/ selectedActions' # selectedActions

\* C17: a file whose loading state is error keeps that state, and gets no
\* new collaborator request, in every step the user does not take.
C17_NoAutomaticRetry ==
    [][~UserActs =>
          \A f \in DOMAIN loadingStates :
              loadingStates[f] = "error" =>
                  /\ f \in DOMAIN loadingStates'
                  /\ loadingStates'[f] = "error"
                  /\ \A fetch \in fetches' \ fetches : fetch.fileName # f]_vars


\* the profiles with every staged selection applied, the selections taken in
\* the order o of their keys, and the row counts propagated
WholeResult(profs, selected, o) ==
    [f \in DOMAIN profs |->
        LET mine == SelectSeq([i \in DOMAIN o |-> selected[o[i]]], LAMBDA a : a.file = f)
        IN  IF mine = <<>> THEN JsonCopy(profs)[f]
            ELSE ApplyToFile(JsonCopy(profs)[f], mine)]

C19_OnePerPair ==
    [][/\ \A k1, k2 \in DOMAIN selectedActions' :
             /\ selectedActions'[k1].file = selectedActions'[k2].file
             /\ selectedActions'[k1].column = selectedActions'[k2].column
             => k1 = k2
       /\ selectedActions' # selectedActions /\ activePage' = activePage =>
             \E k \in DOMAIN selectedActions' :
                 \A j \in (DOMAIN selectedActions \cup DOMAIN selectedActions') \ {k} :
                     /\ j \in DOMAIN selectedActions
                     /\ j \in DOMAIN selectedActions'
                     /\ selectedActions'[j] = selectedActions[j]
                     /\ \/ selectedActions[j].file # selectedActions'[k].file
                        \/ selectedActions[j].column # selectedActions'[k].column]_vars

\* a selection was staged for a pair that had another one, beside the
\* selection of another column
C19_Witness ==
    /\ ~last.applied
    /\ "restaged" \in DOMAIN last
    /\ last.restaged
    /\ Cardinality(DOMAIN selectedActions) = 2


-----------------------------------------------------------------------------
(* Properties of a batch with files that do not parse, over BatchSpec *)

\* the pipeline of the run ends in this step, on the mounted page
Ends(run) ==
    /\ run \in runs
    /\ ~run.stale
    /\ run \notin runs'
    /\ [run EXCEPT !.stale = TRUE] \notin runs'

-----------------------------------------------------------------------------
(* Properties of the stored profiles, over CleaningSpec *)

\* C22: in every stored profile no two columns have the same name.
C22_UniqueNames ==
    \A f \in DOMAIN profiles :
        \A c, d \in DOMAIN profiles[f].columns :
            profiles[f].columns[c].name = profiles[f].columns[d].name => c = d


\* C23: every column of every stored profile has a missingValues that is a
\* count between 0 and the rowCount of its file.
C23_MissingWithinRows ==
    \A f \in DOMAIN profiles :
        \A c \in DOMAIN profiles[f].columns :
            /\ IsCount(profiles[f].columns[c].missingValues)
            /\ profiles[f].columns[c].missingValues <= profiles[f].rowCount


\* C25: no column of a stored profile reports more distinct values than its
\* file has rows.
C25_UniqueWithinRows ==
    \A f \in DOMAIN profiles :
        \A c \in DOMAIN profiles[f].columns :
            profiles[f].columns[c].uniqueValues <= profiles[f].rowCount

-----------------------------------------------------------------------------
(* Properties of repeated cleaning, over RepeatedSpec *)

\* C30: an Apply Changes whose selections for a file are all TRIM_WHITESPACE,
\* or CHANGE_TYPE without a target type, leaves the file's rowCount as it was
\* and, for each column a selection names, its dataType, missingValues,
\* uniqueValues and nonNumericCount.
C30_NeutralActions ==
    last.applied =>
        \A f \in DOMAIN last.before :
            LET mine == SelectSeq(last.actions, LAMBDA a : a.file = f)
            IN  (mine # <<>> /\ \A i \in DOMAIN mine : IsNeutral(mine[i].suggestion))
                    => /\ profiles[f].rowCount = last.before[f].rowCount
                       /\ \A i \in DOMAIN mine :
                              LET c == FindColumn(last.before[f].columns, mine[i].column)
                              IN  c # 0 => profiles[f].columns[c]
                                               = last.before[f].columns[c]

\* C24: whenever Apply Changes removes rows from a file (the largest missing
\* count among its REMOVE_ROWS columns is positive), the file's rowCount before
\* the run was positive, so that no ratio has a zero divisor; and every stored
\* missingValues is a finite non-negative integer.
C24_NoZeroDivisor ==
    /\ last.applied =>
          \A f \in DOMAIN last.before :
              RowsToRemove(last.before, last.actions, f) > 0
                  => last.before[f].rowCount > 0
    /\ \A f \in DOMAIN profiles :
          \A c \in DOMAIN profiles[f].columns :
              IsCount(profiles[f].columns[c].missingValues)


-----------------------------------------------------------------------------
(* Properties of the collaborator calls, over ServiceSpec *)

\* C21: a response that lacks a required field, of the object or of an item of
\* its list, makes the call fail, so that no partial response is returned:
\* every suggestion the cleaning page stores has its action.
C21_NoPartialResponse ==
    \A f \in DOMAIN suggestions :
        \A column \in DOMAIN suggestions[f] :
            \A i \in DOMAIN suggestions[f][column] :
                suggestions[f][column][i].action # Undefined


-----------------------------------------------------------------------------
(* Properties of the selection, over SelectionSpec *)

\* C26: a step that stages a selection (handleActionSelect) changes what is
\* staged for one (file, column) pair at most: every other pair's selection is
\* what it was, whatever the names are.
C26_OtherSelectionsKept ==
    [][selectedActions' # selectedActions /\ selectedActions' # EmptyMap
          => Cardinality({p \in StagedPairs(selectedActions)
                                  \cup StagedPairs(selectedActions') :
                             StagedFor(selectedActions', p[1], p[2])
                                 # StagedFor(selectedActions, p[1], p[2])}) <= 1]_vars


-----------------------------------------------------------------------------
(* Properties of the upload queue, over RemovalSpec *)

\* C27: every key of the profile map is the name of a file of the file list.
C27_ProfilesOfListedFiles ==
    DOMAIN profiles \subseteq {files[i].name : i \in DOMAIN files}

-----------------------------------------------------------------------------
(* Properties of the modeling page, over ModelingSpec *)

\* C29: no two entries of the defined relationships are equal, and right after
\* a suggestion is accepted the pending suggestions are those of before less
\* one occurrence of the accepted one.
C29_NoEqualRelationships ==
    /\ \A i, j \in DOMAIN relationships :
          relationships[i] = relationships[j] => i = j
    /\ "accepted" \in DOMAIN last =>
          \A value \in Range(last.pending) :
              Cardinality({i \in DOMAIN modeling.suggestions :
                              modeling.suggestions[i] = value}) =
                  Cardinality({i \in DOMAIN last.pending : last.pending[i] = value})
                      - (IF value = last.accepted THEN 1 ELSE 0)

\* C29 witness: a suggestion the collaborator returned twice was accepted when
\* its relationship was defined already, and its twin is still pending
C29_AcceptedTwice ==
    /\ "accepted" \in DOMAIN last
    /\ NewRelationship(last.accepted) \in Range(last.relationships)
    /\ last.accepted \in Range(modeling.suggestions)
    /\ relationships = last.relationships


-----------------------------------------------------------------------------
(* Properties of a batch whose calls settle, over SettlingSpec *)

\* C28: on the profiling page every file of the list reaches complete or
\* error, from then on every file stays complete or error, and the button
\* Proceed to Data Cleaning can be used exactly when the page is shown, the
\* list is not empty and every file is complete or error.
C28_ProceedAvailable ==
    /\ (activePage = "Data Profiling") ~> allFilesProcessed
    /\ [][allFilesProcessed => allFilesProcessed']_vars
    /\ [](ENABLED ProceedToCleaning
             <=> /\ activePage = "Data Profiling"
                 /\ files # <<>>
                 /\ \A i \in DOMAIN files :
                        StatusOf(files[i].name) \in {"complete", "error"})

=============================================================================
